---- MODULE Spec2Model ----
(***************************************************************************)
(* ADBA: a multi-tenant SQLite store served over HTTP and gated by a       *)
(* rotating pairing code.                                                  *)
(*                                                                         *)
(* State: the catalog (metadata.db, table "databases"), the tenant files   *)
(* of the data directory, and the AppState fields (pairing code, session   *)
(* list).  Strings whose characters matter (database names, pairing        *)
(* codes, statements) are sequences of one-character or one-word strings.  *)
(*                                                                         *)
(* Storage faults (a disk that cannot be opened or written) are not part   *)
(* of the sequential specification Spec: every file operation the code     *)
(* performs succeeds unless SQLite itself rejects the statement.           *)
(***************************************************************************)
EXTENDS Integers, Sequences, FiniteSets, TLC

VARIABLES
    catalog,             \* rows of metadata.db "databases": [id, name, client_app, created_at]
    files,               \* data_dir: file stem -> tenant file (exists, tables, rows)
    pairing_code,        \* AppState.pairing_code: the public field, set by AppState::new
    pairing_code_inner,  \* AppState.pairing_code_inner: RwLock<String>
    active_connections,  \* AppState.active_connections: RwLock<Vec<ConnectionSession>>
    clock,               \* the system clock read by chrono_timestamp, in milliseconds
    uuids,               \* how many Uuid::new_v4 values create_database has drawn
    last,                \* history: the last completed call [op, name, status]
    retired,             \* history: the codes that were current before a completed rotation
    deleted,             \* history: [name, count]: consecutive successful deletes of one name
    tasks,               \* concurrent calls in flight: task id -> its locals and position
                         \* (rank is history: how many rows there were after its INSERT)
    lock_code,           \* the RwLock around pairing_code_inner: [writer, readers]
    lock_conn,           \* the RwLock around active_connections: [writer, readers]
    log,                 \* history: add/remove calls in the order they took the lock
    pg_port,             \* AppState.pg_port: AtomicU16
    twin                 \* a second run of the server, sent the same requests (SpecTwin)

vars == <<catalog, files, pairing_code, pairing_code_inner, active_connections,
          clock, uuids, last, retired, deleted, tasks, lock_code, lock_conn, log,
          pg_port, twin>>

(***************************************************************************)
(* Bounds of the model.                                                    *)
(***************************************************************************)
MaxClock == 1        \* the clock advances at most this far
MaxUuids == 2        \* create_database is called at most this many times
MaxRows == 1         \* a tenant table holds at most this many rows
MaxSessions == 1     \* the session list holds at most this many entries (Spec)
MaxCreators == 2     \* at most this many create_database calls run concurrently (SpecCreate)
MaxThreads == 3      \* at most this many AppState calls run concurrently (SpecState)

(***************************************************************************)
(* Characters and strings.                                                 *)
(***************************************************************************)
LowerCase == <<"a", "b", "c", "d", "e", "f", "g", "h", "i", "j", "k", "l", "m", "n", "o", "p", "q", "r", "s", "t", "u", "v", "w", "x", "y", "z">>
UpperCase == <<"A", "B", "C", "D", "E", "F", "G", "H", "I", "J", "K", "L", "M", "N", "O", "P", "Q", "R", "S", "T", "U", "V", "W", "X", "Y", "Z">>
Digits == <<"0", "1", "2", "3", "4", "5", "6", "7", "8", "9">>

Range(s) == { s[i] : i \in 1..Len(s) }

MapSeq(s, Op(_)) == [i \in 1..Len(s) |-> Op(s[i])]

\* char::to_lowercase
char_to_lowercase(c) ==
    IF c \in Range(UpperCase)
    THEN LowerCase[CHOOSE i \in 1..Len(UpperCase) : UpperCase[i] = c]
    ELSE c

\* char::to_uppercase
char_to_uppercase(c) ==
    IF c \in Range(LowerCase)
    THEN UpperCase[CHOOSE i \in 1..Len(LowerCase) : LowerCase[i] = c]
    ELSE c

\* char::is_alphanumeric
is_alphanumeric(c) == c \in Range(LowerCase) \cup Range(UpperCase) \cup Range(Digits)

\* str::to_lowercase
str_to_lowercase(s) == MapSeq(s, char_to_lowercase)

\* str::to_uppercase
str_to_uppercase(s) == MapSeq(s, char_to_uppercase)

\* the database names a caller may present
Names == { <<"a">>, <<"A", "-">>, <<"b">>, <<"c", "_", "1">> }

\* the client_app labels a caller may present ("unknown" is the HTTP default)
Apps == { "shop", "unknown" }

\* sanitize_name: keep alphanumerics and '_', then lower-case
sanitize_name(name) ==
    str_to_lowercase(SelectSeq(name, LAMBDA c : is_alphanumeric(c) \/ c = "_"))

\* sanitize_name of every name of the model, computed once
Sanitized == [n \in Names |-> sanitize_name(n)]

\* data_dir.join(format!("{}.db", sanitize_name(name))): the file is identified by its stem
\* variant of db_path that keeps every tenant in one file
db_path_one_file(name) == Sanitized[<<"a">>]

db_path(name) == Sanitized[name]

\* every stem a name of the model resolves to
Stems == { Sanitized[n] : n \in Names }

(***************************************************************************)
(* Tenant files and SQLite.                                                *)
(***************************************************************************)
\* a path with no file behind it
NoFile == [exists |-> FALSE, tables |-> {}, rows |-> 0]

\* the zero-byte file SQLite leaves when it opens a path that does not exist
EmptyDb == [exists |-> TRUE, tables |-> {}, rows |-> 0]

\* rusqlite Connection::open: READ_WRITE | CREATE, so a missing file is created empty
Connection_open(fs, path) ==
    IF fs[path].exists THEN fs ELSE [fs EXCEPT ![path] = EmptyDb]

\* get_file_size: the file's length, 0 when it cannot be stat'ed.  An empty database is a
\* zero-byte file; a database with a schema holds one page per table after the first.
get_file_size(fs, path) ==
    IF fs[path].exists /\ fs[path].tables # {}
    THEN 4096 * (1 + Cardinality(fs[path].tables))
    ELSE 0

\* get_table_count: opens the path (creating it) and counts sqlite_master's tables
get_table_count(fs, path) ==
    [files |-> Connection_open(fs, path),
     count |-> Cardinality(Connection_open(fs, path)[path].tables)]

\* the statements a caller may present (text, character by character)
Q_create == <<"C", "R", "E", "A", "T", "E", " ", "T", "A", "B", "L", "E", " ", "t", "(", "x", ")">>
Q_insert == <<"I", "N", "S", "E", "R", "T", " ", "I", "N", "T", "O", " ", "t", " ", "V", "A", "L", "U", "E", "S", "(", "1", ")">>
Q_select == <<" ", "s", "e", "l", "e", "c", "t", " ", "*", " ", "f", "r", "o", "m", " ", "t">>
Q_delete == <<"D", "E", "L", "E", "T", "E", " ", "F", "R", "O", "M", " ", "t", " ">>
Q_bogus == <<"B", "O", "G", "U", "S">>
Statements == { Q_create, Q_insert, Q_select, Q_delete, Q_bogus }

\* str::trim: drop leading and trailing white space
trim(s) ==
    LET ink == { i \in 1..Len(s) : s[i] # " " }
    IN  IF ink = {} THEN <<>>
        ELSE SubSeq(s, CHOOSE i \in ink : \A j \in ink : i <= j,
                       CHOOSE i \in ink : \A j \in ink : j <= i)

\* str::starts_with
starts_with(s, prefix) ==
    Len(s) >= Len(prefix) /\ SubSeq(s, 1, Len(prefix)) = prefix

\* variant of is_select that does not trim
is_select_untrimmed(query) ==
    starts_with(str_to_uppercase(query), <<"S", "E", "L", "E", "C", "T">>)

\* execute_query's classification: query.trim().to_uppercase().starts_with("SELECT")
is_select(query) ==
    starts_with(str_to_uppercase(trim(query)), <<"S", "E", "L", "E", "C", "T">>)

\* what SQLite makes of a statement: keywords and identifiers are case-insensitive and
\* surrounding white space is ignored
sql(query) == str_to_uppercase(trim(query))

\* is_select and sql of every statement of the model, computed once
IsSelect == [q \in Statements |-> is_select(q)]
Sql == [q \in Statements |-> sql(q)]

\* stmt.query on a tenant file: [ok, rows], rows being the number of row objects
sqlite_query(f, query) ==
    IF Sql[query] = Sql[Q_select] /\ "t" \in f.tables
    THEN [ok |-> TRUE, rows |-> f.rows]
    ELSE [ok |-> FALSE, rows |-> 0]

\* conn.execute on a tenant file: [ok, file, affected]; a statement that returns rows
\* is an error of execute (ExecuteReturnedResults)
sqlite_execute(f, query) ==
    CASE Sql[query] = Sql[Q_create] /\ "t" \notin f.tables ->
            [ok |-> TRUE, file |-> [f EXCEPT !.tables = f.tables \cup {"t"}], affected |-> 0]
      [] Sql[query] = Sql[Q_insert] /\ "t" \in f.tables ->
            [ok |-> TRUE, file |-> [f EXCEPT !.rows = f.rows + 1], affected |-> 1]
      [] Sql[query] = Sql[Q_delete] /\ "t" \in f.tables ->
            [ok |-> TRUE, file |-> [f EXCEPT !.rows = 0], affected |-> f.rows]
      [] OTHER ->
            [ok |-> FALSE, file |-> f, affected |-> 0]

(***************************************************************************)
(* DatabaseEngine (database.rs), as functions of the catalog and the       *)
(* files.  Each returns the catalog and files it leaves and its result.    *)
(***************************************************************************)
\* variant of uuid_new_v4 whose draws repeat
uuid_new_v4_repeating(n) == 1

\* Uuid::new_v4().to_string() in create_database: 122 random bits, taken as never
\* repeating; the n-th draw is the value n
uuid_new_v4(n) == n + 1

\* chrono_timestamp: the clock in milliseconds
chrono_timestamp == clock

\* variant of insert_allowed for a table without constraints
insert_allowed_unconstrained(cat, row) == TRUE

\* variant of insert_allowed with names unique up to sanitize_name
insert_allowed_unique_stem(cat, row) ==
    \A r \in cat : r.id # row.id /\ sanitize_name(r.name) # sanitize_name(row.name)

\* the catalog's constraints: id TEXT PRIMARY KEY, name TEXT NOT NULL UNIQUE
insert_allowed(cat, row) ==
    \A r \in cat : r.id # row.id /\ r.name # row.name

\* the value of a failed call's result
NoInfo ==
    [id |-> 0, name |-> <<>>, client_app |-> "", created_at |-> 0,
     size_bytes |-> 0, tables_count |-> 0, status |-> "Error"]

\* create_database, first statement of the blocking closure: Connection::open(&db_path)
create_database_open(fs, name) == Connection_open(fs, db_path(name))

\* create_database, second statement: INSERT INTO databases, one SQLite transaction
create_database_insert(cat, row) ==
    IF insert_allowed(cat, row)
    THEN [catalog |-> cat \cup {row}, ok |-> TRUE]
    ELSE [catalog |-> cat, ok |-> FALSE]

\* create_database: open (create) the tenant file, then INSERT the row; the returned
\* info reports tables_count 0 without looking at the file
create_database(cat, fs, id, now, name, client_app) ==
    LET row == [id |-> id, name |-> name, client_app |-> client_app, created_at |-> now]
        fs1 == create_database_open(fs, name)
        ins == create_database_insert(cat, row)
    IN  [catalog |-> ins.catalog, files |-> fs1, ok |-> ins.ok,
         info |-> IF ins.ok
                  THEN [id |-> id, name |-> name, client_app |-> client_app,
                        created_at |-> now, size_bytes |-> get_file_size(fs1, db_path(name)),
                        tables_count |-> 0, status |-> "Active"]
                  ELSE NoInfo]

\* the DatabaseInfo list_databases and get_database build for a row: the size is read
\* first, then get_table_count opens the file
database_info(fs, r) ==
    [id |-> r.id, name |-> r.name, client_app |-> r.client_app, created_at |-> r.created_at,
     size_bytes |-> get_file_size(fs, db_path(r.name)),
     tables_count |-> get_table_count(fs, db_path(r.name)).count,
     status |-> "Active"]

\* the files after get_table_count has opened the file of every row of rows
opened_for(fs, rows) ==
    [p \in DOMAIN fs |->
        IF \E r \in rows : db_path(r.name) = p THEN Connection_open(fs, p)[p] ELSE fs[p]]

\* list_databases: every row with the size and table count of its file.  A file created
\* while listing is empty, so the result does not depend on the order of the rows; the
\* ORDER BY created_at DESC of the result is not modelled (infos is a set).
list_databases(cat, fs) ==
    [catalog |-> cat, files |-> opened_for(fs, cat), ok |-> TRUE,
     infos |-> { database_info(fs, r) : r \in cat }]

\* get_database: the row of that name, if any, with the size and table count of its file
get_database(cat, fs, name) ==
    LET rows == { r \in cat : r.name = name }
    IN  [catalog |-> cat, files |-> opened_for(fs, rows), ok |-> TRUE,
         found |-> rows # {},
         info |-> IF rows = {} THEN NoInfo ELSE database_info(fs, CHOOSE r \in rows : TRUE)]

\* variant of delete_database without the db_path.exists() test: removing a missing file fails
delete_database_no_exists_check(cat, fs, name) ==
    [catalog |-> { r \in cat : r.name # name },
     files |-> [fs EXCEPT ![db_path(name)] = NoFile],
     ok |-> fs[db_path(name)].exists]

\* delete_database: DELETE the row of that name, then remove the file if it exists
delete_database(cat, fs, name) ==
    [catalog |-> { r \in cat : r.name # name },
     files |-> [fs EXCEPT ![db_path(name)] = NoFile],
     ok |-> TRUE]

\* DatabaseEngine::execute_query: open (create) the file the name resolves to, then run
\* the statement as a query or as a mutation
execute_query(fs, database, query) ==
    LET path == db_path(database)
        fs1 == Connection_open(fs, path)
    IN  IF IsSelect[query]
        THEN [files |-> fs1, ok |-> sqlite_query(fs1[path], query).ok,
              kind |-> "rows", value |-> sqlite_query(fs1[path], query).rows]
        ELSE [files |-> IF sqlite_execute(fs1[path], query).ok
                        THEN [fs1 EXCEPT ![path] = sqlite_execute(fs1[path], query).file]
                        ELSE fs1,
              ok |-> sqlite_execute(fs1[path], query).ok,
              kind |-> "affected_rows", value |-> sqlite_execute(fs1[path], query).affected]

(***************************************************************************)
(* AppState (state.rs).                                                    *)
(***************************************************************************)
\* the first characters of the hyphenated form of the values Uuid::new_v4 may return;
\* two of them differ only after the sixth character
UuidStrings == { <<"a", "1", "b", "2", "c", "3", "d", "4">>, <<"a", "1", "b", "2", "c", "3", "f", "f">>, <<"0", "e", "0", "e", "0", "e", "0", "e">> }

CodeLen == 6

\* generate_pairing_code: uuid.to_string()[..6].to_uppercase()
generate_pairing_code(uuid) == str_to_uppercase(SubSeq(uuid, 1, CodeLen))

\* every code generate_pairing_code can return
Codes == { generate_pairing_code(u) : u \in UuidStrings }

\* Uuid::new_v4 followed by generate_pairing_code: any of the codes
NewCodes == Codes

\* the codes a caller may present: the generated ones, a lower-cased copy, the empty string
Candidates == Codes \cup { str_to_lowercase(c) : c \in Codes } \cup { <<>> }

\* variant of validate_pairing_code that ignores case
validate_pairing_code_ignore_case(inner, code) ==
    str_to_uppercase(inner) = str_to_uppercase(code)

\* variant of validate_pairing_code that accepts every code
validate_pairing_code_any(inner, code) == TRUE

\* validate_pairing_code: *self.pairing_code_inner.read() == code
validate_pairing_code(inner, code) == inner = code

\* the sessions a caller may add
SessionIds == { "s1", "s2" }
Sessions ==
    [id : SessionIds, client_app : {"shop"}, database : {<<"a">>}, connected_at : {0}]

\* Vec::push in add_connection
push(v, session) == Append(v, session)

\* Vec::retain(|s| s.id != id) in remove_connection
retain(v, id) == SelectSeq(v, LAMBDA s : s.id # id)

(***************************************************************************)
(* The calls, one at a time (Spec): each handler of server.rs runs to its  *)
(* response before the next call starts.                                   *)
(***************************************************************************)
NoLock == [writer |-> 0, readers |-> {}]

\* ApiResponse::ok, ApiResponse::created and ApiResponse::err: the status and the envelope's
\* success flag
ApiResponse_ok == [status |-> 200, success |-> TRUE]
ApiResponse_created == [status |-> 201, success |-> TRUE]
ApiResponse_err(status) == [status |-> status, success |-> FALSE]

\* the value a method of AppState returns without an HTTP response
Returned == [status |-> 0, success |-> TRUE]

\* a completed call: the operation, its name argument, its response; code is the pairing
\* code presented, ret the pairing code returned, valid the verdict returned, info the
\* DatabaseInfo returned, data any other body
Done(op, arg, response) ==
    [op |-> op, arg |-> arg, response |-> response,
     code |-> <<>>, ret |-> <<>>, valid |-> FALSE, info |-> NoInfo, data |-> <<>>]

NotDeleted == [name |-> <<>>, count |-> 0]

\* AppState::new: pg_port: AtomicU16::new(5433)
InitialPort == 5433

\* the second server before it is started (agreed is history: its files were those of the
\* first when the last request arrived)
NoTwin ==
    [catalog |-> {}, files |-> [p \in Stems |-> NoFile], pairing_code_inner |-> <<>>,
     response |-> Returned, info |-> NoInfo, infos |-> {}, agreed |-> TRUE]

concurrent_vars == <<tasks, lock_code, lock_conn, log>>

\* AppState::new over an empty data directory (DatabaseEngine::new has created the catalog)
Init ==
    /\ catalog = {}
    /\ files = [p \in Stems |-> NoFile]
    /\ \E code \in NewCodes :
          /\ pairing_code = code
          /\ pairing_code_inner = code
    /\ active_connections = <<>>
    /\ clock = 0
    /\ uuids = 0
    /\ last = Done("new", <<>>, Returned)
    /\ retired = {}
    /\ deleted = NotDeleted
    /\ tasks = <<>>
    /\ lock_code = NoLock
    /\ lock_conn = NoLock
    /\ log = <<>>
    /\ pg_port = InitialPort
    /\ twin = NoTwin

\* time passes
Tick ==
    /\ clock < MaxClock
    /\ clock' = clock + 1
    /\ UNCHANGED <<catalog, files, pairing_code, pairing_code_inner, active_connections,
                   uuids, last, retired, deleted, concurrent_vars, pg_port, twin>>

\* POST /api/databases (and the create_database command): 201 or 400
server_create_database(name, client_app) ==
    /\ uuids < MaxUuids
    /\ LET r == create_database(catalog, files, uuid_new_v4(uuids), chrono_timestamp,
                                name, client_app)
       IN  /\ catalog' = r.catalog
           /\ files' = r.files
           /\ last' = [Done("create_database", name,
                            IF r.ok THEN ApiResponse_created ELSE ApiResponse_err(400))
                         EXCEPT !.info = r.info]
    /\ uuids' = uuids + 1
    /\ deleted' = NotDeleted
    /\ UNCHANGED <<pairing_code, pairing_code_inner, active_connections, clock, retired,
                   concurrent_vars, pg_port, twin>>

\* GET /api/databases (and the get_databases command): 200 (500 on a storage fault)
server_list_databases ==
    /\ LET r == list_databases(catalog, files)
       IN  /\ catalog' = r.catalog
           /\ files' = r.files
           /\ last' = Done("list_databases", <<>>,
                           IF r.ok THEN ApiResponse_ok ELSE ApiResponse_err(500))
    /\ deleted' = NotDeleted
    /\ UNCHANGED <<pairing_code, pairing_code_inner, active_connections, clock, uuids,
                   retired, concurrent_vars, pg_port, twin>>

\* GET /api/databases/:name: 200, 404 when there is no row (500 on a storage fault)
server_get_database(name) ==
    /\ LET r == get_database(catalog, files, name)
       IN  /\ catalog' = r.catalog
           /\ files' = r.files
           /\ last' = [Done("get_database", name,
                            IF ~r.ok THEN ApiResponse_err(500)
                            ELSE IF r.found THEN ApiResponse_ok ELSE ApiResponse_err(404))
                         EXCEPT !.info = r.info]
    /\ deleted' = IF deleted.name = name THEN deleted ELSE NotDeleted
    /\ UNCHANGED <<pairing_code, pairing_code_inner, active_connections, clock, uuids,
                   retired, concurrent_vars, pg_port, twin>>

\* DELETE /api/databases/:name: 200 (500 on a storage fault)
server_delete_database(name) ==
    /\ LET r == delete_database(catalog, files, name)
       IN  /\ catalog' = r.catalog
           /\ files' = r.files
           /\ last' = Done("delete_database", name,
                           IF r.ok THEN ApiResponse_ok ELSE ApiResponse_err(500))
           /\ deleted' = IF ~r.ok THEN NotDeleted
                         ELSE IF deleted.name = name
                         THEN [name |-> name,
                               count |-> IF deleted.count < 2 THEN deleted.count + 1 ELSE 2]
                         ELSE [name |-> name, count |-> 1]
    /\ UNCHANGED <<pairing_code, pairing_code_inner, active_connections, clock, uuids,
                   retired, concurrent_vars, pg_port, twin>>

\* the model stops inserting when a table is full
table_has_room(fs, database, query) ==
    Sql[query] = Sql[Q_insert] => fs[db_path(database)].rows < MaxRows

\* POST /api/query: 401 unless the code validates, else 200 or 400 from the engine
server_execute_query(database, query, code) ==
    /\ table_has_room(files, database, query)
    /\ IF ~validate_pairing_code(pairing_code_inner, code)
       THEN /\ last' = [Done("execute_query", database, ApiResponse_err(401))
                          EXCEPT !.code = code]
            /\ UNCHANGED files
       ELSE LET r == execute_query(files, database, query)
            IN  /\ files' = r.files
                /\ last' = [Done("execute_query", database,
                                 IF r.ok THEN ApiResponse_ok ELSE ApiResponse_err(400))
                              EXCEPT !.code = code]
    /\ deleted' = NotDeleted
    /\ UNCHANGED <<catalog, pairing_code, pairing_code_inner, active_connections, clock,
                   uuids, retired, concurrent_vars, pg_port, twin>>

\* POST /api/pair: 200 with {valid}
server_validate_pairing(code) ==
    /\ last' = [Done("validate_pairing", <<>>, ApiResponse_ok)
                  EXCEPT !.code = code,
                         !.valid = validate_pairing_code(pairing_code_inner, code)]
    /\ deleted' = NotDeleted
    /\ UNCHANGED <<catalog, files, pairing_code, pairing_code_inner, active_connections,
                   clock, uuids, retired, concurrent_vars, pg_port, twin>>

\* get_pairing_code (server.rs and the command of lib.rs): state.pairing_code.clone()
get_pairing_code == pairing_code

\* GET /api/pairing-code: 200 with the code
server_get_pairing_code ==
    /\ last' = [Done("get_pairing_code", <<>>, ApiResponse_ok) EXCEPT !.ret = get_pairing_code]
    /\ deleted' = NotDeleted
    /\ UNCHANGED <<catalog, files, pairing_code, pairing_code_inner, active_connections,
                   clock, uuids, retired, concurrent_vars, pg_port, twin>>

\* POST /api/pairing-code (and the regenerate_pairing_code command): 200 with the new code
server_regenerate_pairing_code ==
    /\ \E new_code \in NewCodes :
          /\ pairing_code_inner' = new_code
          /\ last' = [Done("regenerate_pairing_code", <<>>, ApiResponse_ok)
                        EXCEPT !.ret = new_code]
    /\ retired' = retired \cup {pairing_code_inner}
    /\ deleted' = NotDeleted
    /\ UNCHANGED <<catalog, files, pairing_code, active_connections, clock, uuids,
                   concurrent_vars, pg_port, twin>>

\* AppState::add_connection
add_connection(session) ==
    /\ Len(active_connections) < MaxSessions
    /\ active_connections' = push(active_connections, session)
    /\ last' = Done("add_connection", <<>>, Returned)
    /\ deleted' = NotDeleted
    /\ UNCHANGED <<catalog, files, pairing_code, pairing_code_inner, clock, uuids, retired,
                   concurrent_vars, pg_port, twin>>

\* AppState::remove_connection
remove_connection(id) ==
    /\ active_connections' = retain(active_connections, id)
    /\ last' = Done("remove_connection", <<>>, Returned)
    /\ deleted' = NotDeleted
    /\ UNCHANGED <<catalog, files, pairing_code, pairing_code_inner, clock, uuids, retired,
                   concurrent_vars, pg_port, twin>>

\* every call, with every input of the model
Next ==
    \/ Tick
    \/ \E name \in Names, client_app \in Apps : server_create_database(name, client_app)
    \/ server_list_databases
    \/ \E name \in Names : server_get_database(name)
    \/ \E name \in Names : server_delete_database(name)
    \/ \E database \in Names, query \in Statements, code \in Candidates :
          server_execute_query(database, query, code)
    \/ \E code \in Candidates : server_validate_pairing(code)
    \/ server_get_pairing_code
    \/ server_regenerate_pairing_code
    \/ \E session \in Sessions : add_connection(session)
    \/ \E id \in SessionIds : remove_connection(id)

\* the whole system
SpecAll == Init /\ [][Next]_vars

\* the names the store's clients use: two that resolve to the same file
StoreNames == { <<"a">>, <<"A", "-">> }

\* the calls of the store: the catalog and the tenant files, queried by clients that
\* present a generated code
NextStore ==
    \/ Tick
    \/ \E name \in StoreNames, client_app \in Apps : server_create_database(name, client_app)
    \/ server_list_databases
    \/ \E name \in StoreNames : server_get_database(name)
    \/ \E name \in StoreNames : server_delete_database(name)
    \/ \E database \in StoreNames, query \in Statements, code \in Codes :
          server_execute_query(database, query, code)

SpecStore == Init /\ [][NextStore]_vars

\* the database the gate's clients work on
GateNames == { <<"a">> }

\* the calls of the gate: the pairing code, its rotation, the session list and the
\* queries of one database
NextGate ==
    \/ \E name \in GateNames : server_create_database(name, "shop")
    \/ \E database \in GateNames, query \in Statements, code \in Candidates :
          server_execute_query(database, query, code)
    \/ \E code \in Candidates : server_validate_pairing(code)
    \/ server_get_pairing_code
    \/ server_regenerate_pairing_code
    \/ \E session \in Sessions : add_connection(session)
    \/ \E id \in SessionIds : remove_connection(id)

Spec == Init /\ [][NextGate]_vars


(***************************************************************************)
(* The status endpoints (SpecStatus): set_pg_port, get_status and          *)
(* get_connection_info beside the calls that change what they report.      *)
(* What the environment decides for a call is an input of the call:        *)
(* whether metadata.db can be read, and what get_local_ip finds.           *)
(***************************************************************************)
MaxPortStores == 2   \* set_pg_port is called at most this many times

\* the ports the transport may bind
Ports == { 8080, 18080 }

\* Option<String>
None == [is_some |-> FALSE, value |-> ""]
Some(v) == [is_some |-> TRUE, value |-> v]

\* what get_local_ip may return: no route, or the address of the outbound interface
LocalIps == { None, Some("192.168.1.7") }

\* Option::unwrap_or_else(|| "127.0.0.1".to_string())
unwrap_or_localhost(ip) == IF ip.is_some THEN ip.value ELSE "127.0.0.1"

\* Result<Vec<DatabaseInfo>>::unwrap_or_default() on list_databases: the listing, or an
\* empty Vec when metadata.db could not be opened or read (the files are then untouched)
list_databases_unwrap_or_default(cat, fs, readable) ==
    IF readable
    THEN [files |-> list_databases(cat, fs).files, dbs |-> list_databases(cat, fs).infos]
    ELSE [files |-> fs, dbs |-> {}]

\* AppState::get_status: the snapshot, and the files the listing leaves
get_status(cat, fs, connections, port, inner, readable, local_ip) ==
    LET listed == list_databases_unwrap_or_default(cat, fs, readable)
    IN  [files |-> listed.files,
         status |-> [running |-> TRUE,
                     pg_port |-> port,
                     databases_count |-> Cardinality(listed.dbs),
                     active_connections |-> Len(connections),
                     pairing_code |-> inner,
                     local_ip |-> local_ip]]

\* format!("postgresql://adba:{}@{}:{}/main", pairing_code, host, port), piece by piece
format_connection_string(code, host, port) ==
    <<"postgresql://adba:", code, "@", host, ":", port, "/main">>

\* variant of get_connection_info that reports the port AppState::new stored
get_connection_info_initial_port(port, inner, local_ip) ==
    [host |-> unwrap_or_localhost(local_ip),
     port |-> InitialPort,
     pairing_code |-> inner,
     connection_string |->
        format_connection_string(inner, unwrap_or_localhost(local_ip), InitialPort)]

\* AppState::get_connection_info
get_connection_info(port, inner, local_ip) ==
    [host |-> unwrap_or_localhost(local_ip),
     port |-> port,
     pairing_code |-> inner,
     connection_string |->
        format_connection_string(inner, unwrap_or_localhost(local_ip), port)]

\* AppState::set_pg_port (start_rest_server calls it with the port it bound)
set_pg_port(port) ==
    /\ Len(log) < MaxPortStores
    /\ pg_port' = port
    /\ log' = Append(log, [op |-> "set_pg_port", port |-> port])
    /\ last' = Done("set_pg_port", <<>>, Returned)
    /\ UNCHANGED <<catalog, files, pairing_code, pairing_code_inner, active_connections,
                   clock, uuids, retired, deleted, tasks, lock_code, lock_conn, twin>>

\* GET /api/status (and the get_status command): always 200
server_get_status(readable, local_ip) ==
    /\ LET r == get_status(catalog, files, active_connections, pg_port, pairing_code_inner,
                           readable, local_ip)
       IN  /\ files' = r.files
           /\ last' = [Done("get_status", [readable |-> readable], ApiResponse_ok)
                         EXCEPT !.data = r.status]
    /\ deleted' = NotDeleted
    /\ UNCHANGED <<catalog, pairing_code, pairing_code_inner, active_connections, clock,
                   uuids, retired, concurrent_vars, pg_port, twin>>

\* GET /api/info (and the get_connection_info command): always 200
server_get_connection_info(local_ip) ==
    /\ last' = [Done("get_connection_info", <<>>, ApiResponse_ok)
                  EXCEPT !.data = get_connection_info(pg_port, pairing_code_inner, local_ip)]
    /\ deleted' = NotDeleted
    /\ UNCHANGED <<catalog, files, pairing_code, pairing_code_inner, active_connections,
                   clock, uuids, retired, concurrent_vars, pg_port, twin>>

\* the calls of the status endpoints
NextStatus ==
    \/ \E port \in Ports : set_pg_port(port)
    \/ \E readable \in BOOLEAN, local_ip \in LocalIps : server_get_status(readable, local_ip)
    \/ \E local_ip \in LocalIps : server_get_connection_info(local_ip)
    \/ \E name \in StoreNames : server_create_database(name, "shop")
    \/ \E name \in StoreNames : server_delete_database(name)
    \/ server_regenerate_pairing_code
    \/ \E session \in Sessions : add_connection(session)
    \/ \E id \in SessionIds : remove_connection(id)

SpecStatus == Init /\ [][NextStatus]_vars

(***************************************************************************)
(* Concurrent create_database calls (SpecCreate): every call runs on its   *)
(* own blocking thread, and the steps of different calls interleave.  An   *)
(* INSERT is one SQLite transaction: SQLite's file lock serialises the     *)
(* writers of metadata.db, and a writer that waits is taken to get the     *)
(* lock within rusqlite's busy timeout.                                    *)
(***************************************************************************)
\* the names the concurrent callers use: two of them resolve to the same file
CreateNames == Names

sequential_vars == <<pairing_code, pairing_code_inner, active_connections, last, retired,
                     deleted, lock_code, lock_conn, log>>

\* N calls with pairwise distinct names, about to start on an empty store
InitCreate ==
    /\ catalog = {}
    /\ files = [p \in Stems |-> NoFile]
    /\ \E code \in NewCodes :
          /\ pairing_code = code
          /\ pairing_code_inner = code
    /\ active_connections = <<>>
    /\ clock = 0
    /\ uuids = 0
    /\ last = Done("new", <<>>, Returned)
    /\ retired = {}
    /\ deleted = NotDeleted
    /\ \E n \in 1..MaxCreators :
          \E names \in [1..n -> CreateNames] :
             /\ \A i, j \in 1..n : i # j => names[i] # names[j]
             /\ tasks = [t \in 1..n |->
                           [op |-> "create_database", pc |-> "call", name |-> names[t],
                            client_app |-> "shop", id |-> 0, now |-> 0, ok |-> FALSE,
                            rank |-> 0]]
    /\ lock_code = NoLock
    /\ lock_conn = NoLock
    /\ log = <<>>
    /\ pg_port = InitialPort
    /\ twin = NoTwin

\* time passes while calls are in flight
TickCreate ==
    /\ clock < MaxClock
    /\ clock' = clock + 1
    /\ UNCHANGED <<catalog, files, uuids, tasks, sequential_vars, pg_port, twin>>

\* create_database up to spawn_blocking: draw the id, read the clock
create_database_call(t) ==
    /\ tasks[t].pc = "call"
    /\ tasks' = [tasks EXCEPT ![t].id = uuid_new_v4(uuids),
                              ![t].now = chrono_timestamp,
                              ![t].pc = "open"]
    /\ uuids' = uuids + 1
    /\ UNCHANGED <<catalog, files, clock, sequential_vars, pg_port, twin>>

\* the blocking closure's Connection::open(&db_path)
create_database_open_step(t) ==
    /\ tasks[t].pc = "open"
    /\ files' = create_database_open(files, tasks[t].name)
    /\ tasks' = [tasks EXCEPT ![t].pc = "insert"]
    /\ UNCHANGED <<catalog, clock, uuids, sequential_vars, pg_port, twin>>

\* the blocking closure's INSERT, and the call's return
create_database_insert_step(t) ==
    /\ tasks[t].pc = "insert"
    /\ LET ins == create_database_insert(catalog,
                     [id |-> tasks[t].id, name |-> tasks[t].name,
                      client_app |-> tasks[t].client_app, created_at |-> tasks[t].now])
       IN  /\ catalog' = ins.catalog
           /\ tasks' = [tasks EXCEPT ![t].ok = ins.ok, ![t].pc = "done",
                                     ![t].rank = Cardinality(ins.catalog)]
    /\ UNCHANGED <<files, clock, uuids, sequential_vars, pg_port, twin>>

NextCreate ==
    \/ TickCreate
    \/ \E t \in DOMAIN tasks : create_database_call(t)
    \/ \E t \in DOMAIN tasks : create_database_open_step(t)
    \/ \E t \in DOMAIN tasks : create_database_insert_step(t)

SpecCreate == InitCreate /\ [][NextCreate]_vars

(***************************************************************************)
(* Concurrent AppState calls (SpecState): every call runs on its own       *)
(* thread.  The two parking_lot RwLocks are explicit; what a call does     *)
(* while it holds one is split into the reads and writes of memory it is   *)
(* made of (a String is read and written in two halves, a Vec is read and  *)
(* then written back), so that exclusion is what makes them atomic.        *)
(***************************************************************************)
\* variant of rwlock_write_ok that excludes nobody
rwlock_write_ok_unguarded(lock) == TRUE

\* RwLock::write may be granted: no writer and no reader hold the lock
rwlock_write_ok(lock) == lock.writer = 0 /\ lock.readers = {}

\* variant of rwlock_read_ok that excludes nobody
rwlock_read_ok_unguarded(lock) == TRUE

\* RwLock::read may be granted: no writer holds the lock
rwlock_read_ok(lock) == lock.writer = 0

\* variant of rwlock_unlock that leaves the lock held
rwlock_unlock_held(lock, t) == lock

\* the guard is dropped
rwlock_unlock(lock, t) ==
    [writer |-> IF lock.writer = t THEN 0 ELSE lock.writer, readers |-> lock.readers \ {t}]

\* the halves a String is read and written in
first_half(s) == SubSeq(s, 1, Len(s) \div 2)
second_half(s) == SubSeq(s, Len(s) \div 2 + 1, Len(s))

\* a thread about to make a call; the fields past arg are its locals and results
\* (at, current and installed are history)
Call(op, arg) ==
    [op |-> op, pc |-> "call", arg |-> arg,
     v |-> <<>>,          \* add/remove: the Vec as read
     new_code |-> <<>>,   \* regenerate: the generated code, which is also what it returns
     seen |-> <<>>,       \* readers: the code as read so far
     valid |-> FALSE,     \* validate: the verdict
     count |-> 0,         \* get_status: active_connections
     at |-> 0,            \* how long the log was when the call took the session lock
     current |-> <<>>,    \* readers: pairing_code_inner when the read completed
     installed |-> <<>>]  \* regenerate: pairing_code_inner when its write completed

NoSession == [id |-> "", client_app |-> "", database |-> <<>>, connected_at |-> 0]

\* the calls a thread may make
Calls ==
    { Call("add_connection", [session |-> s, id |-> s.id, code |-> <<>>]) : s \in Sessions }
    \cup { Call("remove_connection", [session |-> NoSession, id |-> i, code |-> <<>>]) :
              i \in SessionIds }
    \cup { Call("validate_pairing_code", [session |-> NoSession, id |-> "", code |-> c]) :
              c \in Codes }
    \cup { Call(op, [session |-> NoSession, id |-> "", code |-> <<>>]) :
              op \in {"regenerate_pairing_code", "get_status", "get_connection_info"} }

\* an order on the calls, to start symmetric threads once only
CallRank(c) ==
    CASE c.op = "add_connection" -> IF c.arg.id = "s1" THEN 1 ELSE 2
      [] c.op = "remove_connection" -> IF c.arg.id = "s1" THEN 3 ELSE 4
      [] c.op = "validate_pairing_code" -> IF c.arg.code = CHOOSE x \in Codes : TRUE THEN 5 ELSE 6
      [] c.op = "regenerate_pairing_code" -> 7
      [] c.op = "get_status" -> 8
      [] OTHER -> 9

store_vars == <<catalog, files, clock, uuids, pairing_code, last, retired, deleted>>

\* AppState::new, and up to MaxThreads threads about to make one call each
InitState ==
    /\ catalog = {}
    /\ files = [p \in Stems |-> NoFile]
    /\ \E code \in NewCodes :
          /\ pairing_code = code
          /\ pairing_code_inner = code
    /\ active_connections = <<>>
    /\ clock = 0
    /\ uuids = 0
    /\ last = Done("new", <<>>, Returned)
    /\ retired = {}
    /\ deleted = NotDeleted
    /\ \E n \in 1..MaxThreads :
          \E calls \in [1..n -> Calls] :
             /\ \A i \in 1..(n - 1) : CallRank(calls[i]) <= CallRank(calls[i + 1])
             /\ tasks = calls
    /\ lock_code = NoLock
    /\ lock_conn = NoLock
    /\ log = <<>>
    /\ pg_port = InitialPort
    /\ twin = NoTwin

\* add_connection and remove_connection: self.active_connections.write()
conn_write_lock(t) ==
    /\ tasks[t].op \in {"add_connection", "remove_connection"}
    /\ tasks[t].pc = "call"
    /\ rwlock_write_ok(lock_conn)
    /\ lock_conn' = [lock_conn EXCEPT !.writer = t]
    /\ log' = Append(log, [op |-> tasks[t].op, session |-> tasks[t].arg.session,
                           id |-> tasks[t].arg.id])
    /\ tasks' = [tasks EXCEPT ![t].pc = "read", ![t].at = Len(log)]
    /\ UNCHANGED <<active_connections, pairing_code_inner, lock_code, store_vars, pg_port, twin>>

\* push and retain read the Vec
conn_read_vec(t) ==
    /\ tasks[t].op \in {"add_connection", "remove_connection"}
    /\ tasks[t].pc = "read"
    /\ tasks' = [tasks EXCEPT ![t].v = active_connections, ![t].pc = "write"]
    /\ UNCHANGED <<active_connections, pairing_code_inner, lock_code, lock_conn, log,
                   store_vars, pg_port, twin>>

\* push and retain write the Vec; the guard is dropped and the call returns
conn_write_vec(t) ==
    /\ tasks[t].op \in {"add_connection", "remove_connection"}
    /\ tasks[t].pc = "write"
    /\ active_connections' =
          IF tasks[t].op = "add_connection"
          THEN push(tasks[t].v, tasks[t].arg.session)
          ELSE retain(tasks[t].v, tasks[t].arg.id)
    /\ lock_conn' = rwlock_unlock(lock_conn, t)
    /\ tasks' = [tasks EXCEPT ![t].pc = "done"]
    /\ UNCHANGED <<pairing_code_inner, lock_code, log, store_vars, pg_port, twin>>

\* regenerate_pairing_code: let new_code = generate_pairing_code()
regenerate_generate(t) ==
    /\ tasks[t].op = "regenerate_pairing_code"
    /\ tasks[t].pc = "call"
    /\ \E new_code \in NewCodes :
          tasks' = [tasks EXCEPT ![t].new_code = new_code, ![t].pc = "lock"]
    /\ UNCHANGED <<active_connections, pairing_code_inner, lock_code, lock_conn, log,
                   store_vars, pg_port, twin>>

\* regenerate_pairing_code: self.pairing_code_inner.write()
regenerate_lock(t) ==
    /\ tasks[t].op = "regenerate_pairing_code"
    /\ tasks[t].pc = "lock"
    /\ rwlock_write_ok(lock_code)
    /\ lock_code' = [lock_code EXCEPT !.writer = t]
    /\ tasks' = [tasks EXCEPT ![t].pc = "write1"]
    /\ UNCHANGED <<active_connections, pairing_code_inner, lock_conn, log, store_vars, pg_port, twin>>

\* the assignment through the guard, first half
regenerate_write1(t) ==
    /\ tasks[t].op = "regenerate_pairing_code"
    /\ tasks[t].pc = "write1"
    /\ pairing_code_inner' = first_half(tasks[t].new_code) \o second_half(pairing_code_inner)
    /\ tasks' = [tasks EXCEPT ![t].pc = "write2"]
    /\ UNCHANGED <<active_connections, lock_code, lock_conn, log, store_vars, pg_port, twin>>

\* the assignment through the guard, second half; the guard is dropped and new_code returned
regenerate_write2(t) ==
    /\ tasks[t].op = "regenerate_pairing_code"
    /\ tasks[t].pc = "write2"
    /\ pairing_code_inner' = first_half(pairing_code_inner) \o second_half(tasks[t].new_code)
    /\ lock_code' = rwlock_unlock(lock_code, t)
    /\ tasks' = [tasks EXCEPT ![t].pc = "done",
                              ![t].installed = first_half(pairing_code_inner)
                                                 \o second_half(tasks[t].new_code)]
    /\ UNCHANGED <<active_connections, lock_conn, log, store_vars, pg_port, twin>>

\* get_status: let connections = self.active_connections.read()
get_status_lock_conn(t) ==
    /\ tasks[t].op = "get_status"
    /\ tasks[t].pc = "call"
    /\ rwlock_read_ok(lock_conn)
    /\ lock_conn' = [lock_conn EXCEPT !.readers = lock_conn.readers \cup {t}]
    /\ tasks' = [tasks EXCEPT ![t].pc = "len", ![t].at = Len(log)]
    /\ UNCHANGED <<active_connections, pairing_code_inner, lock_code, log, store_vars, pg_port, twin>>

\* get_status: connections.len()
get_status_len(t) ==
    /\ tasks[t].op = "get_status"
    /\ tasks[t].pc = "len"
    /\ tasks' = [tasks EXCEPT ![t].count = Len(active_connections), ![t].pc = "lock"]
    /\ UNCHANGED <<active_connections, pairing_code_inner, lock_code, lock_conn, log,
                   store_vars, pg_port, twin>>

\* validate_pairing_code, get_connection_info and get_status (which still holds the
\* session lock): self.pairing_code_inner.read()
code_read_lock(t) ==
    /\ \/ tasks[t].op \in {"validate_pairing_code", "get_connection_info"} /\ tasks[t].pc = "call"
       \/ tasks[t].op = "get_status" /\ tasks[t].pc = "lock"
    /\ rwlock_read_ok(lock_code)
    /\ lock_code' = [lock_code EXCEPT !.readers = lock_code.readers \cup {t}]
    /\ tasks' = [tasks EXCEPT ![t].pc = "read1"]
    /\ UNCHANGED <<active_connections, pairing_code_inner, lock_conn, log, store_vars, pg_port, twin>>

\* the comparison or the clone reads the String, first half
code_read1(t) ==
    /\ tasks[t].op \in {"validate_pairing_code", "get_connection_info", "get_status"}
    /\ tasks[t].pc = "read1"
    /\ tasks' = [tasks EXCEPT ![t].seen = first_half(pairing_code_inner), ![t].pc = "read2"]
    /\ UNCHANGED <<active_connections, pairing_code_inner, lock_code, lock_conn, log,
                   store_vars, pg_port, twin>>

\* second half; the guards are dropped and the call returns
code_read2(t) ==
    /\ tasks[t].op \in {"validate_pairing_code", "get_connection_info", "get_status"}
    /\ tasks[t].pc = "read2"
    /\ tasks' = [tasks EXCEPT ![t].seen = tasks[t].seen \o second_half(pairing_code_inner),
                              ![t].valid = /\ tasks[t].op = "validate_pairing_code"
                                           /\ validate_pairing_code(
                                                 tasks[t].seen \o second_half(pairing_code_inner),
                                                 tasks[t].arg.code),
                              ![t].current = pairing_code_inner,
                              ![t].pc = "done"]
    /\ lock_code' = rwlock_unlock(lock_code, t)
    /\ lock_conn' = rwlock_unlock(lock_conn, t)
    /\ UNCHANGED <<active_connections, pairing_code_inner, log, store_vars, pg_port, twin>>

NextState ==
    \/ \E t \in DOMAIN tasks : conn_write_lock(t)
    \/ \E t \in DOMAIN tasks : conn_read_vec(t)
    \/ \E t \in DOMAIN tasks : conn_write_vec(t)
    \/ \E t \in DOMAIN tasks : regenerate_generate(t)
    \/ \E t \in DOMAIN tasks : regenerate_lock(t)
    \/ \E t \in DOMAIN tasks : regenerate_write1(t)
    \/ \E t \in DOMAIN tasks : regenerate_write2(t)
    \/ \E t \in DOMAIN tasks : get_status_lock_conn(t)
    \/ \E t \in DOMAIN tasks : get_status_len(t)
    \/ \E t \in DOMAIN tasks : code_read_lock(t)
    \/ \E t \in DOMAIN tasks : code_read1(t)
    \/ \E t \in DOMAIN tasks : code_read2(t)

SpecState == InitState /\ [][NextState]_vars

(***************************************************************************)
(* One execute_query call, statement by statement (SpecQuery): the         *)
(* blocking closure of DatabaseEngine::execute_query with its locals.      *)
(* Beside the statements on table t, a caller may present a SELECT of      *)
(* literal values, whose one row holds the values of the literals.         *)
(***************************************************************************)
\* the values a cell of a result row may hold (rusqlite ValueRef): NULL, an integer, a
\* finite and an infinite real, a text, a text that is not valid UTF-8, a blob
SqlNull == [type |-> "Null", v |-> ""]
SqlInteger == [type |-> "Integer", v |-> "42"]
SqlReal == [type |-> "Real", v |-> "1.5"]
SqlRealInf == [type |-> "Real", v |-> "inf"]
SqlText == [type |-> "Text", v |-> "42"]
SqlTextNotUtf8 == [type |-> "Text", v |-> "\\xff"]
SqlBlob == [type |-> "Blob", v |-> "\\x00"]

\* the literals of the model, as SQL text, and the value SQLite evaluates each to
Literals == { "NULL", "42", "1.5", "9e999", "'42'", "CAST(x'ff' AS TEXT)", "x'00'" }
literal_value(lit) ==
    CASE lit = "NULL" -> SqlNull
      [] lit = "42" -> SqlInteger
      [] lit = "1.5" -> SqlReal
      [] lit = "9e999" -> SqlRealInf
      [] lit = "'42'" -> SqlText
      [] lit = "CAST(x'ff' AS TEXT)" -> SqlTextNotUtf8
      [] lit = "x'00'" -> SqlBlob

\* a result column of a SELECT of literals: the literal, alone or named x by AS
ColumnTexts ==
    { <<lit>> : lit \in Literals } \cup { <<lit, " ", "AS", " ", "x">> : lit \in Literals }

\* the ways a caller may write the keyword
SelectWords ==
    { <<"S", "E", "L", "E", "C", "T", " ">>, <<" ", "s", "e", "l", "e", "c", "t", " ">> }

\* SELECT <column> and SELECT <column>,<column>
LiteralSelects ==
    { w \o c : w \in SelectWords, c \in ColumnTexts }
    \cup { w \o c1 \o <<",">> \o c2 : w \in SelectWords, c1 \in ColumnTexts, c2 \in ColumnTexts }

\* a statement that begins with SELECT and is no SQL
Q_selected == <<"S", "E", "L", "E", "C", "T", "E", "D">>

\* the statements a caller of SpecQuery may present
QueryTexts == Statements \cup LiteralSelects \cup { Q_selected }

\* the result columns a SELECT of literals names, in order: the text is cut at its commas
columns_of(query) ==
    LET body == SubSeq(trim(query), 8, Len(trim(query)))
        commas == { i \in 1..Len(body) : body[i] = "," }
    IN  IF commas = {} THEN <<body>>
        ELSE LET k == CHOOSE i \in commas : TRUE
             IN  <<SubSeq(body, 1, k - 1), SubSeq(body, k + 1, Len(body))>>

\* the name SQLite gives a result column: its alias, or the text of its expression
column_name(column) == column[Len(column)]

\* conn.prepare and stmt.column_names and stmt.query on a tenant file: [ok, column_names,
\* rows], rows being the rows the cursor will yield.  Table t has one column x, and every
\* row INSERT INTO t VALUES(1) put there holds an integer.
sqlite_prepare(f, query) ==
    IF query \in LiteralSelects
    THEN [ok |-> TRUE,
          column_names |-> [j \in 1..Len(columns_of(query)) |-> column_name(columns_of(query)[j])],
          rows |-> << [j \in 1..Len(columns_of(query)) |-> literal_value(columns_of(query)[j][1])] >>]
    ELSE IF query \in Statements /\ sqlite_query(f, query).ok
    THEN [ok |-> TRUE, column_names |-> <<"x">>,
          rows |-> [i \in 1..sqlite_query(f, query).rows |-> <<SqlInteger>>]]
    ELSE [ok |-> FALSE, column_names |-> <<>>, rows |-> <<>>]

\* serde_json values
JsonNull == [json |-> "null", v |-> ""]
JsonString(v) == [json |-> "string", v |-> v]
JsonNumber(v) == [json |-> "number", v |-> v]

\* row.get::<_, String>(i): a text that is valid UTF-8, an error for anything else
row_get_String(cell) == [ok |-> cell.type = "Text" /\ cell.v # "\\xff", v |-> cell.v]

\* row.get::<_, i64>(i): an integer, an error for anything else
row_get_i64(cell) == [ok |-> cell.type = "Integer", v |-> cell.v]

\* row.get::<_, f64>(i): a real or an integer, an error for anything else
row_get_f64(cell) == [ok |-> cell.type \in {"Real", "Integer"}, v |-> cell.v]

\* serde_json::json!(v) of an i64
json_i64(v) == JsonNumber(v)

\* serde_json::json!(v) of an f64: JSON has no infinity, so a float that is not finite
\* becomes null
json_f64(v) == IF v = "inf" THEN JsonNull ELSE JsonNumber(v)

\* the value execute_query inserts for a cell: String, else i64, else f64, else Null
cell_to_json(cell) ==
    IF row_get_String(cell).ok THEN JsonString(row_get_String(cell).v)
    ELSE IF row_get_i64(cell).ok THEN json_i64(row_get_i64(cell).v)
    ELSE IF row_get_f64(cell).ok THEN json_f64(row_get_f64(cell).v)
    ELSE JsonNull

\* serde_json::Map::insert: a key already present gets the new value
map_insert(obj, name, value) ==
    [k \in DOMAIN obj \cup {name} |-> IF k = name THEN value ELSE obj[k]]

\* the object execute_query builds for a row: one insert per column, in order
row_object(column_names, row) ==
    LET Built[j \in 0..Len(column_names)] ==
            IF j = 0 THEN <<>>
            ELSE map_insert(Built[j - 1], column_names[j], cell_to_json(row[j]))
    IN  Built[Len(column_names)]

\* the Result of execute_query: Err, Ok(array of row objects), Ok({"affected_rows": n})
Err == [ok |-> FALSE, kind |-> "error", rows |-> <<>>, affected_rows |-> 0]
Ok_rows(rows_json) == [ok |-> TRUE, kind |-> "array", rows |-> rows_json, affected_rows |-> 0]
Ok_affected(n) == [ok |-> TRUE, kind |-> "object", rows |-> <<>>, affected_rows |-> n]

\* everything an execute_query in flight leaves alone
query_unchanged ==
    <<catalog, clock, uuids, pairing_code, pairing_code_inner, active_connections, last,
      retired, deleted, lock_code, lock_conn, log, pg_port, twin>>

\* execute_query is called (one call at a time); table is history: the rows the
\* statement's cursor held when it was prepared
execute_query_call(database, query) ==
    /\ IF tasks = <<>> THEN TRUE ELSE tasks[1].pc = "done"
    /\ query \in Statements => table_has_room(files, database, query)
    /\ tasks' = << [op |-> "execute_query", pc |-> "open", database |-> database,
                    query |-> query, column_names |-> <<>>, rows |-> <<>>,
                    rows_json |-> <<>>, result |-> Err, table |-> <<>>,
                    is_query |-> FALSE] >>
    /\ UNCHANGED <<files, query_unchanged>>

\* Connection::open(&db_path), then the test of query_upper
execute_query_open(t) ==
    /\ tasks[t].pc = "open"
    /\ files' = Connection_open(files, db_path(tasks[t].database))
    /\ tasks' = [tasks EXCEPT ![t].is_query = is_select(tasks[t].query),
                              ![t].pc = IF is_select(tasks[t].query) THEN "prepare"
                                        ELSE "execute"]
    /\ UNCHANGED query_unchanged

\* conn.prepare(&query_owned)?, column_names, stmt.query([])?
execute_query_prepare(t) ==
    /\ tasks[t].pc = "prepare"
    /\ LET stmt == sqlite_prepare(files[db_path(tasks[t].database)], tasks[t].query)
       IN  tasks' = IF stmt.ok
                    THEN [tasks EXCEPT ![t].column_names = stmt.column_names,
                                       ![t].rows = stmt.rows,
                                       ![t].table = stmt.rows,
                                       ![t].pc = "next"]
                    ELSE [tasks EXCEPT ![t].result = Err, ![t].pc = "done"]
    /\ UNCHANGED <<files, query_unchanged>>

\* while let Some(row) = rows.next()?: the step of the cursor fails (and the closure
\* returns the error), or there is no row left (and it returns the array), or the row's
\* object is pushed
execute_query_next(t, fails) ==
    /\ tasks[t].pc = "next"
    /\ tasks' = IF fails
                THEN [tasks EXCEPT ![t].result = Err, ![t].pc = "done"]
                ELSE IF tasks[t].rows = <<>>
                THEN [tasks EXCEPT ![t].result = Ok_rows(tasks[t].rows_json), ![t].pc = "done"]
                ELSE [tasks EXCEPT ![t].rows_json =
                                      Append(tasks[t].rows_json,
                                             row_object(tasks[t].column_names,
                                                        Head(tasks[t].rows))),
                                   ![t].rows = Tail(tasks[t].rows)]
    /\ UNCHANGED <<files, query_unchanged>>

\* conn.execute(&query_owned, [])?
execute_query_execute(t) ==
    /\ tasks[t].pc = "execute"
    /\ LET path == db_path(tasks[t].database)
           r == sqlite_execute(files[path], tasks[t].query)
       IN  /\ files' = IF r.ok THEN [files EXCEPT ![path] = r.file] ELSE files
           /\ tasks' = [tasks EXCEPT ![t].result = IF r.ok THEN Ok_affected(r.affected) ELSE Err,
                                     ![t].pc = "done"]
    /\ UNCHANGED query_unchanged

NextQuery ==
    \/ \E database \in GateNames, query \in QueryTexts : execute_query_call(database, query)
    \/ \E t \in DOMAIN tasks : execute_query_open(t)
    \/ \E t \in DOMAIN tasks : execute_query_prepare(t)
    \/ \E t \in DOMAIN tasks, fails \in BOOLEAN : execute_query_next(t, fails)
    \/ \E t \in DOMAIN tasks : execute_query_execute(t)

SpecQuery == Init /\ [][NextQuery]_vars

(***************************************************************************)
(* Two servers side by side (SpecTwin): the variables of the first are     *)
(* the model's, the second is twin.  Every request is sent to both, which  *)
(* draw the same ids and read the same clock, and differ in their pairing  *)
(* secret only.                                                            *)
(***************************************************************************)
\* the requests sent to both servers; code is the pairing code the client holds, which
\* only a QueryRequest carries
CatalogOps == { "create_database", "list_databases", "get_database", "delete_database" }
CatalogRequests ==
    [op : CatalogOps, name : StoreNames, query : {<<>>}, code : Codes]
QueryRequests ==
    [op : {"execute_query"}, name : StoreNames, query : {Q_create, Q_insert}, code : Codes]

\* variant of requires_pairing_code in which every handler validates the code
requires_pairing_code_always(op) == TRUE

\* the handlers that call validate_pairing_code before anything else: execute_query only
requires_pairing_code(op) == op = "execute_query"

\* a handler of server.rs as a function of the server's state (catalog, files, secret):
\* the state it leaves, its response, and the info or infos in the response
serve(st, request, id, now) ==
    LET same == [catalog |-> st.catalog, files |-> st.files,
                 pairing_code_inner |-> st.pairing_code_inner,
                 response |-> ApiResponse_ok, info |-> NoInfo, infos |-> {}]
    IN  IF requires_pairing_code(request.op)
           /\ ~validate_pairing_code(st.pairing_code_inner, request.code)
        THEN [same EXCEPT !.response = ApiResponse_err(401)]
        ELSE CASE request.op = "create_database" ->
                    LET r == create_database(st.catalog, st.files, id, now, request.name, "shop")
                    IN  [same EXCEPT !.catalog = r.catalog, !.files = r.files, !.info = r.info,
                                     !.response = IF r.ok THEN ApiResponse_created
                                                  ELSE ApiResponse_err(400)]
               [] request.op = "list_databases" ->
                    LET r == list_databases(st.catalog, st.files)
                    IN  [same EXCEPT !.files = r.files, !.infos = r.infos]
               [] request.op = "get_database" ->
                    LET r == get_database(st.catalog, st.files, request.name)
                    IN  [same EXCEPT !.files = r.files, !.info = r.info,
                                     !.response = IF r.found THEN ApiResponse_ok
                                                  ELSE ApiResponse_err(404)]
               [] request.op = "delete_database" ->
                    LET r == delete_database(st.catalog, st.files, request.name)
                    IN  [same EXCEPT !.catalog = r.catalog, !.files = r.files]
               [] request.op = "execute_query" ->
                    LET r == execute_query(st.files, request.name, request.query)
                    IN  [same EXCEPT !.files = r.files,
                                     !.response = IF r.ok THEN ApiResponse_ok
                                                  ELSE ApiResponse_err(400)]

\* two servers over empty data directories, each with the code its AppState::new drew
InitTwin ==
    /\ catalog = {}
    /\ files = [p \in Stems |-> NoFile]
    /\ \E code \in NewCodes :
          /\ pairing_code = code
          /\ pairing_code_inner = code
    /\ active_connections = <<>>
    /\ clock = 0
    /\ uuids = 0
    /\ last = Done("new", <<>>, Returned)
    /\ retired = {}
    /\ deleted = NotDeleted
    /\ tasks = <<>>
    /\ lock_code = NoLock
    /\ lock_conn = NoLock
    /\ log = <<>>
    /\ pg_port = InitialPort
    /\ \E code \in NewCodes : twin = [NoTwin EXCEPT !.pairing_code_inner = code]

\* one request, served by both servers
twin_request(request) ==
    /\ request.op = "create_database" => uuids < MaxUuids
    /\ request.op = "execute_query" => table_has_room(files, request.name, request.query)
                                       /\ table_has_room(twin.files, request.name, request.query)
    /\ LET st == [catalog |-> catalog, files |-> files,
                  pairing_code_inner |-> pairing_code_inner]
           r1 == serve(st, request, uuid_new_v4(uuids), chrono_timestamp)
           r2 == serve(twin, request, uuid_new_v4(uuids), chrono_timestamp)
       IN  /\ catalog' = r1.catalog
           /\ files' = r1.files
           /\ last' = [Done(request.op, request.name, r1.response)
                         EXCEPT !.info = r1.info, !.data = r1.infos]
           /\ twin' = [catalog |-> r2.catalog, files |-> r2.files,
                       pairing_code_inner |-> r2.pairing_code_inner,
                       response |-> r2.response, info |-> r2.info, infos |-> r2.infos,
                       agreed |-> files = twin.files]
    /\ uuids' = IF request.op = "create_database" THEN uuids + 1 ELSE uuids
    /\ UNCHANGED <<pairing_code, pairing_code_inner, active_connections, clock, retired,
                   deleted, concurrent_vars, pg_port>>

NextTwin ==
    \/ \E request \in CatalogRequests : twin_request(request)
    \/ \E request \in QueryRequests : twin_request(request)

SpecTwin == InitTwin /\ [][NextTwin]_vars

(***************************************************************************)
(* Two concurrent calls of the engine (SpecOps): after any sequence of     *)
(* calls made one at a time, two of create_database, delete_database and   *)
(* execute_query start together and their file and catalog steps           *)
(* interleave.  Files behave as on POSIX: a file that is removed while a   *)
(* connection has it open lives on, nameless, for that connection.         *)
(***************************************************************************)
\* the names the callers use: two that resolve to one file, and a third
OpsNames == { <<"a">>, <<"A", "-">>, <<"b">> }


\* a call of the engine about to start; start is history (the catalog and files when it
\* started), removed is history (this delete removed the file), the rest are its locals
\* and its result
EngineCall(op, name, query, pc) ==
    [op |-> op, pc |-> pc, name |-> name, client_app |-> "shop", query |-> query,
     id |-> 0, now |-> 0, ok |-> FALSE, rank |-> 0,
     k |-> 1, exists |-> FALSE, removed |-> FALSE, response |-> Returned,
     orphan |-> NoFile, kind |-> "", value |-> 0,
     start |-> [catalog |-> {}, files |-> [p \in Stems |-> NoFile]]]

\* the calls made alone: they leave the store with and without rows, files and tables
AloneCalls ==
    { EngineCall("create_database", n, <<>>, "call") : n \in OpsNames }
    \cup { EngineCall("delete_database", n, <<>>, "delete") : n \in OpsNames }
    \cup { EngineCall("execute_query", n, Q_create, "query_open") : n \in OpsNames }

\* the calls that run together
EngineCalls ==
    { EngineCall("create_database", n, <<>>, "call") : n \in OpsNames }
    \cup { EngineCall("delete_database", n, <<>>, "delete") : n \in OpsNames }
    \cup { EngineCall("execute_query", n, Q_insert, "query_open") : n \in OpsNames }

\* the two calls are numbered by kind; which of them is task 1 changes nothing
kind_order(op) ==
    CASE op = "create_database" -> 1 [] op = "delete_database" -> 2 [] op = "execute_query" -> 3

\* a call made alone, from its first step to its return: the catalog and files it leaves
\* and its result
engine_apply(call, st) ==
    CASE call.op = "create_database" ->
            LET r == create_database(st.catalog, st.files, call.id, call.now, call.name,
                                     call.client_app)
            IN  [catalog |-> r.catalog, files |-> r.files, ok |-> r.ok,
                 kind |-> "", value |-> 0]
      [] call.op = "delete_database" ->
            LET r == delete_database(st.catalog, st.files, call.name)
            IN  [catalog |-> r.catalog, files |-> r.files, ok |-> r.ok,
                 kind |-> "", value |-> 0]
      [] call.op = "execute_query" ->
            LET r == execute_query(st.files, call.name, call.query)
            IN  [catalog |-> st.catalog, files |-> r.files, ok |-> r.ok,
                 kind |-> IF r.ok THEN r.kind ELSE "", value |-> IF r.ok THEN r.value ELSE 0]

\* everything the engine's calls leave alone
ops_unchanged ==
    <<pairing_code, pairing_code_inner, active_connections, last, retired, deleted,
      lock_code, lock_conn, log, pg_port, twin>>

\* before the two calls start: a call made alone
ops_alone(call) ==
    /\ tasks = <<>>
    /\ call.op = "create_database" => uuids < MaxUuids
    /\ LET r == engine_apply([call EXCEPT !.id = uuid_new_v4(uuids), !.now = chrono_timestamp],
                             [catalog |-> catalog, files |-> files])
       IN  /\ catalog' = r.catalog
           /\ files' = r.files
    /\ uuids' = IF call.op = "create_database" THEN uuids + 1 ELSE uuids
    /\ UNCHANGED <<clock, tasks, ops_unchanged>>

\* two calls start
ops_start(call1, call2) ==
    /\ tasks = <<>>
    /\ kind_order(call1.op) <= kind_order(call2.op)
    /\ \A c \in {call1, call2} :
          c.op = "execute_query" => table_has_room(files, c.name, c.query)
    /\ tasks' = << [call1 EXCEPT !.start = [catalog |-> catalog, files |-> files]],
                   [call2 EXCEPT !.start = [catalog |-> catalog, files |-> files]] >>
    /\ UNCHANGED <<catalog, files, clock, uuids, ops_unchanged>>

\* variant of delete_database_steps that removes the file before the row
delete_database_steps_file_first == <<"exists", "remove", "row">>

\* the statements of delete_database's closure, in order: DELETE FROM databases, then
\* db_path.exists(), then remove_file
delete_database_steps == <<"row", "exists", "remove">>

\* the step a delete is at, and the task after the step
delete_at(t, step) ==
    /\ tasks[t].op = "delete_database"
    /\ tasks[t].pc = "delete"
    /\ delete_database_steps[tasks[t].k] = step

\* the closure returns Ok(()) after its last statement, and the handler answers 200
delete_advance(task) ==
    IF task.k = Len(delete_database_steps)
    THEN [task EXCEPT !.pc = "done", !.ok = TRUE, !.response = ApiResponse_ok]
    ELSE [task EXCEPT !.k = task.k + 1]

\* conn.execute("DELETE FROM databases WHERE name = ?1")
delete_database_row(t) ==
    /\ delete_at(t, "row")
    /\ catalog' = { r \in catalog : r.name # tasks[t].name }
    /\ tasks' = [tasks EXCEPT ![t] = delete_advance(tasks[t])]
    /\ UNCHANGED <<files, clock, uuids, ops_unchanged>>

\* db_path.exists()
delete_database_exists(t) ==
    /\ delete_at(t, "exists")
    /\ tasks' = [tasks EXCEPT ![t] = delete_advance([tasks[t] EXCEPT
                                        !.exists = files[db_path(tasks[t].name)].exists])]
    /\ UNCHANGED <<catalog, files, clock, uuids, ops_unchanged>>

\* std::fs::remove_file(&db_path)? when exists() was true: it fails when the file is no
\* longer there, and then the closure returns the error and the handler answers 500.  A
\* query that has the file open keeps it.
delete_database_remove(t) ==
    /\ delete_at(t, "remove")
    /\ LET path == db_path(tasks[t].name)
           keep(u) == IF /\ tasks[u].op = "execute_query"
                         /\ tasks[u].pc = "query_run"
                         /\ db_path(tasks[u].name) = path
                         /\ ~tasks[u].orphan.exists
                      THEN [tasks[u] EXCEPT !.orphan = files[path]]
                      ELSE tasks[u]
       IN  IF ~tasks[t].exists
           THEN /\ tasks' = [tasks EXCEPT ![t] = delete_advance(tasks[t])]
                /\ UNCHANGED files
           ELSE IF files[path].exists
           THEN /\ files' = [files EXCEPT ![path] = NoFile]
                /\ tasks' = [u \in DOMAIN tasks |->
                               IF u = t THEN delete_advance([tasks[t] EXCEPT !.removed = TRUE])
                               ELSE keep(u)]
           ELSE /\ tasks' = [tasks EXCEPT ![t].pc = "done", ![t].ok = FALSE,
                                          ![t].response = ApiResponse_err(500)]
                /\ UNCHANGED files
    /\ UNCHANGED <<catalog, clock, uuids, ops_unchanged>>

\* execute_query: Connection::open(&db_path)
query_open(t) ==
    /\ tasks[t].op = "execute_query"
    /\ tasks[t].pc = "query_open"
    /\ files' = Connection_open(files, db_path(tasks[t].name))
    /\ tasks' = [tasks EXCEPT ![t].pc = "query_run"]
    /\ UNCHANGED <<catalog, clock, uuids, ops_unchanged>>

\* execute_query: the statement, on the file the connection has open
query_run(t) ==
    /\ tasks[t].op = "execute_query"
    /\ tasks[t].pc = "query_run"
    /\ LET path == db_path(tasks[t].name)
           fs == IF tasks[t].orphan.exists THEN [files EXCEPT ![path] = tasks[t].orphan]
                 ELSE files
           r == execute_query(fs, tasks[t].name, tasks[t].query)
       IN  /\ files' = IF tasks[t].orphan.exists THEN files ELSE r.files
           /\ tasks' = [tasks EXCEPT ![t].pc = "done", ![t].ok = r.ok,
                                     ![t].kind = IF r.ok THEN r.kind ELSE "",
                                     ![t].value = IF r.ok THEN r.value ELSE 0]
    /\ UNCHANGED <<catalog, clock, uuids, ops_unchanged>>

NextOps ==
    \/ \E call \in AloneCalls : ops_alone(call)
    \/ \E call1 \in EngineCalls, call2 \in EngineCalls : ops_start(call1, call2)
    \/ \E t \in DOMAIN tasks : create_database_call(t)
    \/ \E t \in DOMAIN tasks : create_database_open_step(t)
    \/ \E t \in DOMAIN tasks : create_database_insert_step(t)
    \/ \E t \in DOMAIN tasks : delete_database_row(t)
    \/ \E t \in DOMAIN tasks : delete_database_exists(t)
    \/ \E t \in DOMAIN tasks : delete_database_remove(t)
    \/ \E t \in DOMAIN tasks : query_open(t)
    \/ \E t \in DOMAIN tasks : query_run(t)

SpecOps == Init /\ [][NextOps]_vars

(***************************************************************************)
(* The process ends and starts again (SpecRestart): init_services runs on  *)
(* the data directory the ended process left, and builds a new AppState.   *)
(***************************************************************************)
\* DatabaseEngine::new: create_dir_all, Connection::open(metadata.db) and CREATE TABLE IF
\* NOT EXISTS databases: a table that exists keeps its rows, and no tenant file is touched
DatabaseEngine_new(cat, fs) == [catalog |-> cat, files |-> fs, ok |-> TRUE]

\* register_service: the mDNS announcement made for a port and a pairing code
register_service(port, code) ==
    [port |-> port,
     instance_name |-> <<"ADBA Database Server", "-">> \o SubSeq(code, 1, 4),
     properties |-> [version |-> "0.1.0", protocol |-> "postgresql",
                     pairing_prefix |-> SubSeq(code, 1, 2)]]

\* the announcement on the network: init_services registers it once, with the port
\* start_rest_server bound and the field state.pairing_code
announcement == register_service(8080, pairing_code)

\* init_services in a new process: DatabaseEngine::new, AppState::new, start_rest_server
\* (which stores the port it bound) and register_service; last.code is history, the secret
\* of the process that ended
init_services ==
    /\ LET db == DatabaseEngine_new(catalog, files)
       IN  /\ catalog' = db.catalog
           /\ files' = db.files
    /\ \E code \in NewCodes :
          /\ pairing_code' = code
          /\ pairing_code_inner' = code
    /\ active_connections' = <<>>
    /\ pg_port' = 8080
    /\ last' = [Done("init_services", <<>>, Returned) EXCEPT !.code = pairing_code_inner]
    /\ deleted' = NotDeleted
    /\ tasks' = <<>>
    /\ lock_code' = NoLock
    /\ lock_conn' = NoLock
    /\ UNCHANGED <<clock, uuids, retired, log, twin>>

\* the calls between two starts of the process
NextRestart ==
    \/ init_services
    \/ \E name \in StoreNames : server_create_database(name, "shop")
    \/ \E name \in StoreNames : server_delete_database(name)
    \/ \E database \in GateNames, code \in Codes : server_execute_query(database, Q_create, code)
    \/ \E code \in Codes : server_validate_pairing(code)
    \/ server_regenerate_pairing_code
    \/ \E session \in Sessions : add_connection(session)

SpecRestart == Init /\ [][NextRestart]_vars

(***************************************************************************)
(* The AppState calls under fair scheduling (SpecLocks): the threads of    *)
(* SpecState, with the waiting of parking_lot's writers explicit.  A       *)
(* writer that finds readers inside takes the writer bit, which keeps new  *)
(* readers and writers out, and parks until the readers have left.         *)
(***************************************************************************)
\* RwLock::write with readers inside (add_connection and remove_connection on the session
\* list, regenerate_pairing_code on the secret): the writer bit is set and the thread parks
write_park(t) ==
    /\ tasks[t].pc = IF tasks[t].op = "regenerate_pairing_code" THEN "lock" ELSE "call"
    /\ IF tasks[t].op = "regenerate_pairing_code"
       THEN /\ lock_code.writer = 0 /\ lock_code.readers # {}
            /\ lock_code' = [lock_code EXCEPT !.writer = t]
            /\ UNCHANGED lock_conn
       ELSE /\ tasks[t].op \in {"add_connection", "remove_connection"}
            /\ lock_conn.writer = 0 /\ lock_conn.readers # {}
            /\ lock_conn' = [lock_conn EXCEPT !.writer = t]
            /\ UNCHANGED lock_code
    /\ tasks' = [tasks EXCEPT ![t].pc = "parked"]
    /\ UNCHANGED <<active_connections, pairing_code_inner, log, store_vars, pg_port, twin>>

\* the last reader has left: the parked writer holds the lock
write_unpark(t) ==
    /\ tasks[t].pc = "parked"
    /\ IF tasks[t].op = "regenerate_pairing_code"
       THEN /\ lock_code.readers = {}
            /\ tasks' = [tasks EXCEPT ![t].pc = "write1"]
            /\ UNCHANGED log
       ELSE /\ lock_conn.readers = {}
            /\ log' = Append(log, [op |-> tasks[t].op, session |-> tasks[t].arg.session,
                                   id |-> tasks[t].arg.id])
            /\ tasks' = [tasks EXCEPT ![t].pc = "read", ![t].at = Len(log)]
    /\ UNCHANGED <<active_connections, pairing_code_inner, lock_code, lock_conn, store_vars,
                   pg_port, twin>>

NextLocks ==
    \/ NextState
    \/ \E t \in DOMAIN tasks : write_park(t)
    \/ \E t \in DOMAIN tasks : write_unpark(t)

\* every thread that can take a step is scheduled
SpecLocks == InitState /\ [][NextLocks]_vars /\ WF_vars(NextLocks)

(***************************************************************************)
(* POST /api/query beside rotations (SpecRace): the handler validates the  *)
(* code, then hands the statement to the engine; a rotation is another     *)
(* request and may be served between the two.  validate_pairing_code and   *)
(* regenerate_pairing_code are atomic under their RwLock (SpecState).      *)
(***************************************************************************)
\* the execute_query handler up to the engine call: state.validate_pairing_code, and 401
\* when it fails (current is history: the secret when the statement ran)
handler_validate(database, query, code) ==
    /\ IF tasks = <<>> THEN TRUE ELSE tasks[1].pc = "done"
    /\ table_has_room(files, database, query)
    /\ LET valid == validate_pairing_code(pairing_code_inner, code)
       IN  tasks' = << [op |-> "execute_query", pc |-> IF valid THEN "engine" ELSE "done",
                        database |-> database, query |-> query, code |-> code,
                        valid |-> valid, executed |-> FALSE, current |-> <<>>,
                        response |-> IF valid THEN Returned ELSE ApiResponse_err(401)] >>
    /\ UNCHANGED <<catalog, files, pairing_code, pairing_code_inner, active_connections,
                   clock, uuids, last, retired, deleted, lock_code, lock_conn, log, pg_port,
                   twin>>

\* the rest of the handler: state.db.execute_query runs the statement, 200 or 400
handler_execute(t) ==
    /\ tasks[t].op = "execute_query"
    /\ tasks[t].pc = "engine"
    /\ LET r == execute_query(files, tasks[t].database, tasks[t].query)
       IN  /\ files' = r.files
           /\ tasks' = [tasks EXCEPT ![t].pc = "done", ![t].executed = TRUE,
                                     ![t].current = pairing_code_inner,
                                     ![t].response = IF r.ok THEN ApiResponse_ok
                                                     ELSE ApiResponse_err(400)]
    /\ UNCHANGED <<catalog, pairing_code, pairing_code_inner, active_connections, clock,
                   uuids, last, retired, deleted, lock_code, lock_conn, log, pg_port, twin>>

\* queries of one database and rotations, served concurrently
NextRace ==
    \/ \E database \in GateNames, query \in {Q_create, Q_insert}, code \in Codes :
          handler_validate(database, query, code)
    \/ \E t \in DOMAIN tasks : handler_execute(t)
    \/ server_regenerate_pairing_code

SpecRace == Init /\ [][NextRace]_vars

(***************************************************************************)
(* The gate (Spec).                                                        *)
(***************************************************************************)
\* C1: once a rotation has returned, the code that was current before it is rejected by
\* every later validate_pairing_code, and a query presenting it is answered 401
C1_OldCodeRejected ==
    /\ \A old \in retired : ~validate_pairing_code(pairing_code_inner, old)
    /\ (last.op = "execute_query" /\ last.code \in retired) => last.response.status = 401

\* C2: a query whose code is not the current secret is answered 401 with success false and
\* changes nothing; one whose code is the current secret runs the engine's execute_query
\* and is answered 200 when it succeeds, 400 when it fails
C2_QueryGate ==
    [][\A database \in GateNames, query \in Statements, code \in Candidates :
          server_execute_query(database, query, code) =>
             IF code # pairing_code_inner
             THEN /\ last'.response = [status |-> 401, success |-> FALSE]
                  /\ UNCHANGED <<catalog, files, pairing_code_inner, active_connections>>
             ELSE /\ files' = execute_query(files, database, query).files
                  /\ last'.response.status =
                        IF execute_query(files, database, query).ok THEN 200 ELSE 400
                  /\ UNCHANGED <<catalog, pairing_code_inner, active_connections>>]_vars

\* C2's case: a query was refused while there was a row, a table, a session and a rotated
\* secret to protect
C2_Witness ==
    /\ last.op = "execute_query"
    /\ last.response.status = 401
    /\ catalog # {}
    /\ \E p \in Stems : files[p].tables # {}
    /\ active_connections # <<>>
    /\ retired # {}

\* C3: the code GET /api/pairing-code returns is the current secret: it validates, and
\* after a rotation it is the code the rotation returned
C3_GetReturnsCurrent ==
    /\ validate_pairing_code(pairing_code_inner, get_pairing_code)
    /\ last.op = "regenerate_pairing_code" => get_pairing_code = last.ret

(***************************************************************************)
(* The store (SpecStore).                                                  *)
(***************************************************************************)
has_row(cat, name) == \E r \in cat : r.name = name

\* C4: create_database with a name that already has a row is answered 400 with success
\* false and leaves the catalog and the tenant files as they were
C4_DuplicateCreateNoEffect ==
    [][\A name \in StoreNames, client_app \in Apps :
          (server_create_database(name, client_app) /\ has_row(catalog, name)) =>
             /\ last'.response = [status |-> 400, success |-> FALSE]
             /\ catalog' = catalog
             /\ files' = files]_vars

C6_CreatedIsEmpty ==
    (last.op = "create_database" /\ last.response.status = 201) =>
       /\ last.info.tables_count = 0
       /\ last.info.status = "Active"
       /\ Cardinality({ i \in list_databases(catalog, files).infos : i.name = last.arg }) = 1
       /\ \A i \in list_databases(catalog, files).infos :
             i.name = last.arg => i.tables_count = 0 /\ i.size_bytes >= 0

\* C8: create_database with a name that has no row but sanitizes like the name of an
\* existing row succeeds and adds a second row; both names resolve to the same file, so what
\* a statement does under one name is seen under the other, and deleting either name
\* removes the file of both
C8_SanitizedNamesShareFile ==
    [][\A n2 \in StoreNames, client_app \in Apps :
          (/\ server_create_database(n2, client_app)
           /\ ~has_row(catalog, n2)
           /\ \E r \in catalog : r.name # n2 /\ sanitize_name(r.name) = sanitize_name(n2)) =>
             /\ last'.response = [status |-> 201, success |-> TRUE]
             /\ has_row(catalog', n2)
             /\ Cardinality(catalog') = Cardinality(catalog) + 1
             /\ \A r \in catalog :
                   sanitize_name(r.name) = sanitize_name(n2) =>
                      /\ has_row(catalog', r.name)
                      /\ db_path(r.name) = db_path(n2)
                      /\ \A q \in Statements :
                            /\ execute_query(execute_query(files', r.name, q).files, n2, Q_select)
                                 = execute_query(execute_query(files', r.name, q).files,
                                                 r.name, Q_select)
                            /\ execute_query(files', r.name, q).files
                                 = execute_query(files', n2, q).files
                      /\ ~delete_database(catalog', files', r.name).files[db_path(n2)].exists
                      /\ ~delete_database(catalog', files', n2).files[db_path(r.name)].exists]_vars

\* C8's case: a second name was created over the file of a first one, which holds a table
C8_Witness ==
    /\ last.op = "create_database"
    /\ last.response.status = 201
    /\ \E r \in catalog :
          /\ r.name # last.arg
          /\ sanitize_name(r.name) = sanitize_name(last.arg)
          /\ files[db_path(r.name)].tables # {}

(***************************************************************************)
(* Concurrent creation (SpecCreate).                                       *)
(***************************************************************************)
AllDone == \A t \in DOMAIN tasks : tasks[t].pc = "done"

\* the final state the claim describes: one row and one file per call, ids all different
OneRowAndFilePerCall ==
    /\ \A t \in DOMAIN tasks : tasks[t].ok
    /\ Cardinality(catalog) = Len(tasks)
    /\ Cardinality({ p \in DOMAIN files : files[p].exists }) = Len(tasks)
    /\ Cardinality({ r.id : r \in catalog }) = Len(tasks)

\* C7 as stated: N concurrent create_database calls with pairwise distinct names on an
\* empty store end with exactly N rows, N files and pairwise distinct ids
C7_DistinctNames == AllDone => OneRowAndFilePerCall

\* C7 as amended: the same, for names whose sanitized forms are pairwise distinct
C7_DistinctSanitizedNames ==
    (/\ AllDone
     /\ \A i, j \in DOMAIN tasks :
           i # j => sanitize_name(tasks[i].name) # sanitize_name(tasks[j].name)) =>
       OneRowAndFilePerCall

\* C7's case: as many calls as the model allows, with distinct sanitized names, have all
\* returned, one that drew its id first having inserted its row (rank) last
C7_Witness ==
    /\ AllDone
    /\ Len(tasks) = MaxCreators
    /\ \A i, j \in DOMAIN tasks :
          i # j => sanitize_name(tasks[i].name) # sanitize_name(tasks[j].name)
    /\ \E i, j \in DOMAIN tasks : tasks[i].id < tasks[j].id /\ tasks[i].rank > tasks[j].rank

(***************************************************************************)
(* Concurrent AppState calls (SpecState).                                  *)
(***************************************************************************)
\* the session list the first n entries of the log call for: the sessions added, in the
\* order of their adds, that no later remove_connection of their id follows
Expected(n) ==
    LET kept == { i \in 1..n :
                    /\ log[i].op = "add_connection"
                    /\ \A j \in (i + 1)..n :
                          ~(log[j].op = "remove_connection" /\ log[j].id = log[i].id) }
        Ordered[k \in 0..n] ==
            IF k = 0 THEN <<>>
            ELSE IF k \in kept THEN Append(Ordered[k - 1], log[k].session)
            ELSE Ordered[k - 1]
    IN  Ordered[n]

\* C9: once every call has returned, the session list is exactly the sessions added and
\* not removed by a later remove_connection, nothing lost and nothing twice, and the
\* active_connections of a status snapshot is the length of the list it was taken of
C9_SessionsLinearizable ==
    /\ AllDone => active_connections = Expected(Len(log))
    /\ \A t \in DOMAIN tasks :
          (tasks[t].op = "get_status" /\ tasks[t].pc = "done") =>
             tasks[t].count = Len(Expected(tasks[t].at))

\* C9's case: two writers of the session list have both returned, and a session remains
C9_Witness ==
    /\ AllDone
    /\ Cardinality({ t \in DOMAIN tasks :
                       tasks[t].op \in {"add_connection", "remove_connection"} }) >= 2
    /\ active_connections # <<>>

\* C10: a reader of the pairing code gets a complete code, the one that was current when
\* it read; a rotation returns the code it installed, which was the current secret when
\* its write completed
C10_RotationAtomic ==
    \A t \in DOMAIN tasks :
       tasks[t].pc = "done" =>
          /\ tasks[t].op \in {"validate_pairing_code", "get_connection_info", "get_status"} =>
                /\ tasks[t].seen \in Codes
                /\ tasks[t].seen = tasks[t].current
                /\ tasks[t].op = "validate_pairing_code" =>
                      (tasks[t].valid <=> tasks[t].current = tasks[t].arg.code)
          /\ tasks[t].op = "regenerate_pairing_code" =>
                /\ tasks[t].installed = tasks[t].new_code
                /\ tasks[t].installed \in Codes

\* C10's case: a rotation that changed the code and another call on the code, a rotation
\* or a reader, have both returned
C10_Witness ==
    /\ AllDone
    /\ \E t, u \in DOMAIN tasks :
          /\ t # u
          /\ tasks[t].op = "regenerate_pairing_code"
          /\ tasks[t].new_code # pairing_code
          /\ tasks[u].op \in {"regenerate_pairing_code", "validate_pairing_code",
                              "get_connection_info", "get_status"}

(***************************************************************************)
(* The status endpoints (SpecStatus).                                      *)
(***************************************************************************)
\* the port set_pg_port stored last, the one AppState::new stored when it was never called
last_stored_port == IF log = <<>> THEN InitialPort ELSE log[Len(log)].port

\* C11: get_status always answers with a snapshot, also when the catalog cannot be listed
\* or no local IP is found: running is true, databases_count is the number of catalog rows,
\* active_connections the number of sessions, pairing_code the current secret and pg_port
\* the port stored last
C11_StatusSnapshot ==
    last.op = "get_status" =>
       /\ last.response = [status |-> 200, success |-> TRUE]
       /\ last.data.running
       /\ last.data.databases_count = Cardinality(catalog)
       /\ last.data.active_connections = Len(active_connections)
       /\ last.data.pairing_code = pairing_code_inner
       /\ last.data.pg_port = last_stored_port

\* C12: get_connection_info returns the port stored last by set_pg_port (the initial
\* default before any store), the current secret and the host found, and its
\* connection_string is exactly postgresql://adba:<code>@<host>:<port>/main of those three
C12_ConnectionInfo ==
    last.op = "get_connection_info" =>
       /\ last.data.port = last_stored_port
       /\ log = <<>> => last.data.port = 5433
       /\ last.data.pairing_code = pairing_code_inner
       /\ last.data.host # ""
       /\ last.data.connection_string =
             <<"postgresql://adba:", pairing_code_inner, "@", last.data.host, ":",
               last_stored_port, "/main">>

\* C12's case: the info was read after the port was stored twice and the code rotated
C12_Witness ==
    /\ last.op = "get_connection_info"
    /\ Len(log) = 2
    /\ log[1].port # log[2].port
    /\ last.data.port # InitialPort
    /\ pairing_code_inner # pairing_code
    /\ last.data.host = "127.0.0.1"

(***************************************************************************)
(* One execute_query call (SpecQuery).                                     *)
(***************************************************************************)
\* the JSON value the claim gives a cell: a string for text, a number for an integer and
\* for a float, null for the rest
claimed_json(cell) ==
    CASE cell.type = "Text" -> JsonString(cell.v)
      [] cell.type = "Integer" -> JsonNumber(cell.v)
      [] cell.type = "Real" -> JsonNumber(cell.v)
      [] OTHER -> JsonNull

\* C13: every cell of every row a SELECT returned has the JSON value of its own type:
\* text a string, an integer a number, a float a number, NULL and blob null
C13_CellCoercion ==
    \A t \in DOMAIN tasks :
       (tasks[t].pc = "done" /\ tasks[t].result.kind = "array") =>
          /\ Len(tasks[t].result.rows) = Len(tasks[t].table)
          /\ \A i \in 1..Len(tasks[t].table), j \in 1..Len(tasks[t].column_names) :
                /\ tasks[t].column_names[j] \in DOMAIN tasks[t].result.rows[i]
                /\ tasks[t].result.rows[i][tasks[t].column_names[j]]
                     = claimed_json(tasks[t].table[i][j])

\* the claim's test of a statement: past its leading white space, the first six
\* characters spell select in any case
begins_with_select(query) ==
    LET ink == { i \in 1..Len(query) : query[i] # " " }
    IN  /\ ink # {}
        /\ LET first == CHOOSE i \in ink : \A j \in ink : i <= j
           IN  /\ Len(query) >= first + 5
               /\ \A k \in 1..6 :
                     query[first + k - 1] \in { <<"s", "e", "l", "e", "c", "t">>[k],
                                                <<"S", "E", "L", "E", "C", "T">>[k] }

\* C20: execute_query runs a statement as a query exactly when its text, trimmed and in
\* any case, begins with SELECT; a query that succeeds returns the array of all its rows,
\* a mutation that succeeds {affected_rows: n} with n >= 0, and a failure is an error that
\* carries no rows
C20_QueryOrMutation ==
    \A t \in DOMAIN tasks :
       /\ tasks[t].pc \notin {"open"} =>
             (tasks[t].is_query <=> begins_with_select(tasks[t].query))
       /\ tasks[t].pc = "done" =>
             /\ tasks[t].result.kind =
                   IF ~tasks[t].result.ok THEN "error"
                   ELSE IF begins_with_select(tasks[t].query) THEN "array" ELSE "object"
             /\ tasks[t].result.kind = "array" =>
                   Len(tasks[t].result.rows) = Len(tasks[t].table)
             /\ tasks[t].result.kind = "object" => tasks[t].result.affected_rows >= 0
             /\ tasks[t].result.kind = "error" => tasks[t].result.rows = <<>>

\* C20's case: a lower-case select with leading white space was run as a query on a table
\* filled by mutations, and failed after its first row was fetched: the result is the error
C20_Witness ==
    \E t \in DOMAIN tasks :
       /\ tasks[t].pc = "done"
       /\ tasks[t].query = Q_select
       /\ tasks[t].is_query
       /\ tasks[t].rows_json # <<>>
       /\ tasks[t].result = Err

(***************************************************************************)
(* The gate (Spec), continued.                                             *)
(***************************************************************************)
\* C14: POST /api/pair answers 200 with valid true exactly when the candidate has the
\* length of the current secret and the same character at every position, whatever the
\* candidate (the empty string and a lower-cased copy included), and changes nothing
C14_ValidateExact ==
    [][\A code \in Candidates :
          server_validate_pairing(code) =>
             /\ last'.response = [status |-> 200, success |-> TRUE]
             /\ last'.valid <=>
                   /\ Len(code) = Len(pairing_code_inner)
                   /\ \A i \in 1..Len(code) : code[i] = pairing_code_inner[i]
             /\ UNCHANGED <<catalog, files, pairing_code, pairing_code_inner,
                            active_connections, pg_port>>]_vars

\* C14's case: a lower-cased copy of a rotated secret was presented and refused
C14_Witness ==
    /\ last.op = "validate_pairing"
    /\ last.code # pairing_code_inner
    /\ str_to_uppercase(last.code) = pairing_code_inner
    /\ ~last.valid
    /\ retired # {}
    /\ catalog # {}

(***************************************************************************)
(* Two servers side by side (SpecTwin).                                    *)
(***************************************************************************)
\* C15: the two servers, which differ in their pairing secret only, always hold the same
\* catalog, and a create, list, get or delete request that found them with the same files
\* left them with the same files and got the same response from both, whatever code the
\* client holds
C15_CatalogNotGated ==
    /\ catalog = twin.catalog
    /\ (last.op \in CatalogOps /\ twin.agreed) =>
          /\ files = twin.files
          /\ last.response = twin.response
          /\ last.info = twin.info
          /\ last.data = twin.infos

\* C15's case: a query was run by one server and refused by the other, whose secret is
\* not the client's; then both created the same database
C15_Witness ==
    /\ pairing_code_inner # twin.pairing_code_inner
    /\ files # twin.files
    /\ catalog = twin.catalog
    /\ last.op = "create_database"
    /\ last.response.status = 201
    /\ twin.response.status = 201

task_result(task) == [ok |-> task.ok, kind |-> task.kind, value |-> task.value]

\* the two calls made one after the other from the state they started in, with the ids and
\* times they drew: the final catalog and files, and the two results
one_after_the_other(first, second) ==
    LET s1 == engine_apply(first, first.start)
        s2 == engine_apply(second, [catalog |-> s1.catalog, files |-> s1.files])
    IN  [catalog |-> s2.catalog, files |-> s2.files,
         first |-> [ok |-> s1.ok, kind |-> s1.kind, value |-> s1.value],
         second |-> [ok |-> s2.ok, kind |-> s2.kind, value |-> s2.value]]

\* the interleaved run ended as both sequential orders do
SameAsEitherOrder ==
    LET r12 == one_after_the_other(tasks[1], tasks[2])
        r21 == one_after_the_other(tasks[2], tasks[1])
    IN  /\ catalog = r12.catalog /\ catalog = r21.catalog
        /\ files = r12.files /\ files = r21.files
        /\ task_result(tasks[1]) = r12.first /\ task_result(tasks[1]) = r21.second
        /\ task_result(tasks[2]) = r12.second /\ task_result(tasks[2]) = r21.first

C18_RowsHaveFiles ==
    (\A t \in DOMAIN tasks :
        tasks[t].op \in {"create_database", "delete_database"} => tasks[t].pc = "done")
    => \A r \in catalog : files[db_path(r.name)].exists


\* the rows of the delete's name that were in the catalog when it started
rows_to_delete(task) == { r \in task.start.catalog : r.name = task.name }

\* C19: delete_database removes the catalog row before the file: once a delete has removed
\* the file, no row of its name that it found is still in the catalog; a delete that finds
\* no file succeeds (200); and a delete whose file removal fails answers 500 with the row
\* already gone.
C19_RowBeforeFile ==
    \A t \in DOMAIN tasks :
        tasks[t].op = "delete_database" =>
            /\ tasks[t].removed => rows_to_delete(tasks[t]) \cap catalog = {}
            /\ (tasks[t].pc = "done" /\ ~tasks[t].exists) =>
                  tasks[t].ok /\ tasks[t].response = ApiResponse_ok
            /\ (tasks[t].pc = "done" /\ ~tasks[t].ok) =>
                  /\ tasks[t].response = ApiResponse_err(500)
                  /\ rows_to_delete(tasks[t]) \cap catalog = {}
            /\ (tasks[t].pc = "done" /\ tasks[t].ok) => tasks[t].response = ApiResponse_ok

C19_Witness ==
    \E t \in DOMAIN tasks :
        /\ tasks[t].op = "delete_database" /\ tasks[t].pc = "done" /\ ~tasks[t].ok
        /\ rows_to_delete(tasks[t]) # {}
        /\ \E u \in DOMAIN tasks : tasks[u].op = "delete_database" /\ tasks[u].removed


(***************************************************************************)
(* Restart (SpecRestart).                                                  *)
(***************************************************************************)
\* C21: a restart leaves every catalog row and every tenant file as they were, empties the
\* session list, and installs a secret under which the code that was current before the
\* restart is no longer accepted.
C21_Restart ==
    [][last'.op = "init_services" =>
          /\ catalog' = catalog
          /\ files' = files
          /\ active_connections' = <<>>
          /\ ~validate_pairing_code(pairing_code_inner', pairing_code_inner)]_vars

\* C22: in every state the pairing_prefix of the announcement is the first two characters
\* of the current secret.
C22_AdvertisedPrefix ==
    announcement.properties.pairing_prefix = SubSeq(pairing_code_inner, 1, 2)


(***************************************************************************)
(* The store (SpecStore): which calls change the set of files.             *)
(***************************************************************************)
\* C23: list_databases, get_database, get_status and execute_query, whatever the name,
\* leave the set of tenant files that exist and the catalog rows as they were.
C23_OnlyCreateAndDeleteChangeFiles ==
    [][last'.op \in {"list_databases", "get_database", "get_status", "execute_query"} =>
          /\ catalog' = catalog
          /\ \A p \in Stems : files'[p].exists = files[p].exists]_vars


(***************************************************************************)
(* POST /api/query beside rotations (SpecRace).                            *)
(***************************************************************************)
\* C24: no statement runs at an instant when the pairing code presented with it is not the
\* current secret: a query whose statement was executed presented the code that was the
\* secret when the statement ran.
C24_NoStatementUnderStaleCode ==
    \A t \in DOMAIN tasks :
        (tasks[t].op = "execute_query" /\ tasks[t].executed) =>
            tasks[t].code = tasks[t].current


(***************************************************************************)
(* The AppState calls under fair scheduling (SpecLocks).                   *)
(***************************************************************************)
\* C25: under fair scheduling every concurrent get_status, get_connection_info,
\* validate_pairing_code, regenerate_pairing_code, add_connection and remove_connection
\* call eventually acquires the locks it needs and returns.
C25_EveryCallReturns == <>(\A t \in DOMAIN tasks : tasks[t].pc = "done")

\* get_status holds the session lock and waits for the secret's lock, which a rotation
\* holds, while a writer of the session list waits behind get_status
C25_Witness ==
    \E t, u, w \in DOMAIN tasks :
        /\ tasks[t].op = "get_status" /\ tasks[t].pc = "lock" /\ t \in lock_conn.readers
        /\ tasks[u].op = "regenerate_pairing_code" /\ lock_code.writer = u
        /\ tasks[w].op \in {"add_connection", "remove_connection"}
        /\ tasks[w].pc = "parked" /\ lock_conn.writer = w

====
